---- MODULE Spec2Model ----
(***************************************************************************)
(* Model of the gated-page-scraper repository.                             *)
(*                                                                         *)
(*   Spec        the concurrent collector, gated_text_collector.py:        *)
(*               main() -> run(): job queue, worker tasks, result queue,   *)
(*               aggregator loop, batched store writes, exit of run().     *)
(*   SpecBucket  TokenBucket of gated_text_collector.py on a discrete      *)
(*               monotonic clock, with callers taking acquire()            *)
(*               concurrently and sleeps that may wake late.               *)
(*   SpecSeq     the target loop of gated_page_scraper.py main(): one      *)
(*               target at a time, six write attempts per row.             *)
(*   SpecFetch   one worker task of gated_text_collector.py step by step:  *)
(*               jobs.get, bucket.acquire, and every attempt and backoff   *)
(*               sleep of fetch_all_for_code.                              *)
(*   SpecArgs    run() of gated_text_collector.py up to the creation of    *)
(*               the worker tasks, over a wide range of --qps and          *)
(*               --concurrency values.                                     *)
(*   SpecLive    Spec without interrupts and with every task scheduled     *)
(*               fairly.                                                   *)
(*   SpecGate    main() of gated_page_scraper.py from its first line: the  *)
(*               ALLOW_AUTOMATION switch, the database, load_targets, the  *)
(*               browser, and every driver.get.                            *)
(*                                                                         *)
(* Every specification leaves the variables of the other parts unchanged.  *)
(***************************************************************************)
EXTENDS Integers, Sequences, FiniteSets, TLC

VARIABLES
    \* ---- collector: run() and main() of gated_text_collector.py
    pc,            \* position of the controller (main / run)
    codes,         \* the job keys handed to run(), in order
    batch,         \* --batch
    concurrency,   \* --concurrency
    jobs,          \* asyncio.Queue of jobs: a job is its position in codes, None is 0
    results,       \* asyncio.Queue of result tuples
    done, ok, ng,  \* counters of the aggregator
    buf,           \* rows waiting for the next executemany
    store,         \* committed rows of sample_text_reports, by code
    flushes,       \* every executemany call made: its rows, where, and whether it committed
    wpc,           \* position of each worker task
    witem,         \* the job a worker holds (0: none)
    lock,          \* holder of TokenBucket._lock among the workers (0: free)
    emitted,       \* per job: number of result tuples put on the result queue
    returned,      \* per job: what fetch_all_for_code returned for it
    wpage,         \* the page each worker got from ctx.new_page() (0: none)
    qps,           \* --qps, a float
    ivl,           \* TokenBucket.interval as run() constructs it, a float
    exitKind,      \* how the aggregator loop was left
    tallyPrinted,  \* line 531 was reached
    ctxOpen,       \* the playwright context is open
    \* ---- TokenBucket on a clock
    clock,         \* time.monotonic(), in ticks
    interval,      \* TokenBucket.interval, in ticks
    bnext,         \* TokenBucket._next
    block,         \* holder of TokenBucket._lock among the callers (0: free)
    cpc,           \* position of each caller
    cnow,          \* the value of `now` a caller read
    rets,          \* the instants at which acquire() calls returned, in order
    nexts,         \* the successive values of _next
    nows,          \* the `now` read by each acquire() call that returned, in order
    \* ---- sequential scraper: main() of gated_page_scraper.py
    spc,           \* position in the target loop
    targets,       \* the targets, in enumerator order
    sidx,          \* index of the current target (enumerate from 1)
    sattempt,      \* i of `for i in range(6)`
    sok, sng,      \* ok / ng of the sequential scraper
    committed,     \* targets whose INSERT OR REPLACE was executed and committed
    swrites,       \* number of cur.execute(insert_sql, row) calls per target
    sqps,          \* --qps of the sequential scraper, a float
    slog,          \* the driver.get calls of the loop and the sleeps of polite_sleep, in order
    \* ---- one worker task, step by step
    fpc,           \* position of the worker
    fqueue,        \* the job queue
    fjob,          \* the job held (0: none)
    ffn,           \* index of the page-fetch function in the tuple of line 440
    fattempt,      \* attempt of `for attempt in range(RETRIES)`
    fdelay,        \* delay, in milliseconds
    fdata,         \* the functions whose chunk is in data
    flog,          \* calls and sleeps made for the job held, in order
    facquires,     \* bucket.acquire() calls made for the job held
    fresults,      \* the result tuples put
    \* ---- sequential scraper: main() of gated_page_scraper.py from line 479
    gpc,           \* position in main()
    genv,          \* the environment variable ALLOW_AUTOMATION
    gorigins,      \* ALLOWED_ORIGINS
    glogin,        \* LOGIN_URL
    grows,         \* member_url of the rows of consensus_links selected
    gtargets,      \* the URLs load_targets returned
    gidx,          \* index of the next target to navigate to
    ggets,         \* the URLs passed to driver.get, in order
    gdb,           \* sqlite3.connect was called
    gbrowser       \* build_selenium was called

collVars == <<pc, codes, batch, concurrency, jobs, results, done, ok, ng, buf, store,
              flushes, wpc, witem, lock, emitted, returned, wpage, qps, ivl,
              exitKind, tallyPrinted, ctxOpen>>
bucketVars == <<clock, interval, bnext, block, cpc, cnow, rets, nexts, nows>>
seqVars == <<spc, targets, sidx, sattempt, sok, sng, committed, swrites, sqps, slog>>
fetchVars == <<fpc, fqueue, fjob, ffn, fattempt, fdelay, fdata, flog, facquires, fresults>>
gateVars == <<gpc, genv, gorigins, glogin, grows, gtargets, gidx, ggets, gdb, gbrowser>>
vars == <<collVars, bucketVars, seqVars, fetchVars, gateVars>>

\* what the actions of one part leave alone
notColl == <<bucketVars, seqVars, fetchVars, gateVars>>
notBucket == <<collVars, seqVars, fetchVars, gateVars>>
notSeq == <<collVars, bucketVars, fetchVars, gateVars>>
notFetch == <<collVars, bucketVars, seqVars, gateVars>>
notGate == <<collVars, bucketVars, seqVars, fetchVars>>

-----------------------------------------------------------------------------
(* Bounds of the model *)

MaxJobs == 3          \* longest job list
MaxBatch == 2         \* largest --batch
NumFns == 1           \* how many of the page-fetch functions of line 440 are kept

(* Program constants *)

RETRIES == 3
MAX_WORKERS == 8

Keys == 1..MaxJobs    \* the codes, by number
None == 0
NoRow == <<>>
Fns == 1..NumFns
Workers == 1..MAX_WORKERS

\* The --concurrency values tried: 0 is raised to one worker, 2 starts two
Concurrencies == {0, 2}

\* The job lists tried: n different codes, and n codes of which the last
\* repeats the first (the same code twice in one run)
CodeLists ==
    {[i \in 1..n |-> i] : n \in 0..MaxJobs}
        \cup {[i \in 1..n |-> IF i = n THEN 1 ELSE i] : n \in 2..MaxJobs}

Max(a, b) == IF a >= b THEN a ELSE b
Min(a, b) == IF a <= b THEN a ELSE b

total == Len(codes)

-----------------------------------------------------------------------------
(* fetch_all_for_code: for each page-fetch function, up to RETRIES attempts; *)
(* the first successful attempt's chunk is merged into data and ends the     *)
(* attempts of that function; every exception of an attempt is swallowed.    *)
(* fails[f] is the number of leading attempts of function f that raise.      *)

RECURSIVE try_fn(_, _)
try_fn(nfail, attempt) ==
    IF attempt >= RETRIES THEN FALSE            \* range(RETRIES) exhausted
    ELSE IF attempt >= nfail THEN TRUE          \* chunk returned: update, break
    ELSE try_fn(nfail, attempt + 1)             \* except: swallowed, next attempt

\* data: the fields fetched, each carrying the job whose fetch returned it.
\* No statement outside the inner try can raise an Exception: raised is FALSE.
fetch_all_for_code(fails, j) ==
    [raised |-> FALSE,
     data   |-> [f \in {g \in Fns : try_fn(fails[g], 0)} |-> j]]

\* the tuple a worker puts: (target_date, code, d, None) or (target_date, code, None, e)
result_tuple(j, fetched) ==
    IF ~fetched.raised
    THEN [job |-> j, isdata |-> TRUE, data |-> fetched.data, err |-> FALSE]
    ELSE [job |-> j, isdata |-> FALSE, data |-> <<>>, err |-> TRUE]

\* the row with every field left at ""
make_row_blank(r) ==
    [job |-> r.job, code |-> codes[r.job], fields |-> [f \in Fns |-> 0]]

\* row = [td0, code] + [data.get(k, "") for k in FIELD_ORDER]; "" is 0
make_row(r) ==
    [job |-> r.job, code |-> codes[r.job],
     fields |-> [f \in Fns |-> IF f \in DOMAIN r.data THEN r.data[f] ELSE 0]]

\* INSERT OR IGNORE: the first row of a key stays
RECURSIVE upsert_ignore(_, _)
upsert_ignore(st, rows) ==
    IF rows = <<>> THEN st
    ELSE upsert_ignore(IF st[Head(rows).code] = NoRow
                       THEN [st EXCEPT ![Head(rows).code] = Head(rows)]
                       ELSE st,
                       Tail(rows))

\* INSERT OR REPLACE of the rows, in order, keyed by (target_date, code)
RECURSIVE upsert(_, _)
upsert(st, rows) ==
    IF rows = <<>> THEN st
    ELSE upsert([st EXCEPT ![Head(rows).code] = Head(rows)], Tail(rows))

\* the requested concurrency taken as it is
nworkers_unclamped == concurrency

\* line 505: range(max(1, min(concurrency, 8)))
nworkers == Max(1, Min(concurrency, MAX_WORKERS))

\* stop_workers(): one None per worker task. Defined in run(), called nowhere.
stop_workers == jobs \o [i \in 1..nworkers |-> None]

-----------------------------------------------------------------------------
(* Floats. --qps is parsed by float(), which accepts every decimal and also  *)
(* inf, -inf and nan. A finite float is the rational num/den with den > 0;   *)
(* rounding is left out.                                                     *)

Fin(n, d) == [kind |-> "fin", num |-> n, den |-> d]
PosInf == [kind |-> "inf", num |-> 1, den |-> 0]
NegInf == [kind |-> "inf", num |-> -1, den |-> 0]
NaN == [kind |-> "nan", num |-> 0, den |-> 0]
NoFloat == [kind |-> "none", num |-> 0, den |-> 0]                 \* not assigned yet
ZeroDivisionError == [kind |-> "ZeroDivisionError", num |-> 0, den |-> 0]

\* a > b: False as soon as one of the two is nan
py_gt(a, b) ==
    IF a.kind = "nan" \/ b.kind = "nan" THEN FALSE
    ELSE IF a.kind = "inf" THEN a.num > 0 /\ ~(b.kind = "inf" /\ b.num > 0)
    ELSE IF b.kind = "inf" THEN b.num < 0
    ELSE a.num * b.den > b.num * a.den

\* max(a, b): a, unless b > a
py_max(a, b) == IF py_gt(b, a) THEN b ELSE a

\* 1.0 / x
py_inverse(x) ==
    IF x.kind = "nan" THEN NaN
    ELSE IF x.kind = "inf" THEN Fin(0, 1)
    ELSE IF x.num = 0 THEN ZeroDivisionError
    ELSE IF x.num > 0 THEN Fin(x.den, x.num)
    ELSE Fin(-x.den, -x.num)

EPS_DEN == 10000
EPSILON == Fin(1, EPS_DEN)          \* 0.0001
DEFAULT_QPS == Fin(7, 10)           \* 0.7

\* the interval without the floor on qps
TokenBucket_interval_unfloored(q) == py_inverse(q)

\* TokenBucket.__init__: self.interval = 1.0 / max(qps, 0.0001)
TokenBucket_interval(q) == py_inverse(py_max(q, EPSILON))

MaxQps == 3           \* largest finite --qps tried, in units of 0.0001 and of 1
MaxConcurrency == 2   \* --concurrency runs from -MaxConcurrency to MAX_WORKERS + MaxConcurrency

QpsValues ==
    {Fin(q, EPS_DEN) : q \in -MaxQps..MaxQps}
        \cup {Fin(q, 1) : q \in 1..MaxQps}
        \cup {DEFAULT_QPS, PosInf, NegInf, NaN}

ConcurrencyValues == -MaxConcurrency..(MAX_WORKERS + MaxConcurrency)

\* the page a worker's call of ctx.new_page() returns, were the page made
\* once and shared
new_page_shared(w) == 1

\* ctx.new_page() returns a new Page on every call: the page is numbered by
\* the worker task that made the call
new_page(w) == w

NoFetch == [got |-> FALSE, data |-> <<>>]

-----------------------------------------------------------------------------
(* The collector: main() and run() *)

InitColl ==
    /\ pc = "main"
    /\ codes \in CodeLists
    /\ batch \in 1..MaxBatch
    /\ concurrency \in Concurrencies
    /\ jobs = <<>> /\ results = <<>>
    /\ done = 0 /\ ok = 0 /\ ng = 0
    /\ buf = <<>>
    /\ store = [k \in Keys |-> NoRow]
    /\ flushes = <<>>
    /\ wpc = [w \in Workers |-> "idle"]
    /\ witem = [w \in Workers |-> None]
    /\ lock = 0
    /\ emitted = [j \in 1..MaxJobs |-> 0]
    /\ returned = [j \in 1..MaxJobs |-> NoFetch]
    /\ wpage = [w \in Workers |-> 0]
    /\ qps = DEFAULT_QPS
    /\ ivl = NoFloat
    /\ exitKind = "none"
    /\ tallyPrinted = FALSE
    /\ ctxOpen = FALSE

\* main() calling run() whatever the code list
MainStart_always_runs ==
    /\ pc = "main"
    /\ pc' = "run"
    /\ UNCHANGED notColl
    /\ UNCHANGED <<codes, batch, concurrency, jobs, results, done, ok, ng, buf, store,
                   flushes, wpc, witem, lock, emitted, returned, wpage, qps, ivl, exitKind,
                   tallyPrinted, ctxOpen>>

\* main(): with no code to fetch, return before run() is called
MainStart ==
    /\ pc = "main"
    /\ pc' = IF codes = <<>> THEN "no_targets" ELSE "run"
    /\ UNCHANGED notColl
    /\ UNCHANGED <<codes, batch, concurrency, jobs, results, done, ok, ng, buf, store,
                   flushes, wpc, witem, lock, emitted, returned, wpage, qps, ivl, exitKind, tallyPrinted, ctxOpen>>

\* a run() that queues the first job only before the workers are created
Seed_partial ==
    /\ pc = "run"
    /\ jobs' = [i \in 1..Min(total, 1) |-> i]
    /\ done' = 0 /\ ok' = 0 /\ ng' = 0
    /\ buf' = <<>>
    /\ ivl' = TokenBucket_interval(qps)
    /\ pc' = "start"
    /\ UNCHANGED notColl
    /\ UNCHANGED <<codes, batch, concurrency, results, store, flushes, wpc, witem, lock,
                   emitted, returned, wpage, qps, exitKind, tallyPrinted, ctxOpen>>

\* run(), lines 477-485: every job is put on the queue, the counters start at 0
Seed ==
    /\ pc = "run"
    /\ jobs' = [i \in 1..total |-> i]
    /\ done' = 0 /\ ok' = 0 /\ ng' = 0
    /\ buf' = <<>>
    /\ ivl' = TokenBucket_interval(qps)
    /\ pc' = "start"
    /\ UNCHANGED notColl
    /\ UNCHANGED <<codes, batch, concurrency, results, store, flushes, wpc, witem, lock,
                   emitted, returned, wpage, qps, exitKind, tallyPrinted, ctxOpen>>

\* run(), lines 503-506: the context is entered and the worker tasks are created
StartWorkers ==
    /\ pc = "start"
    /\ ctxOpen' = TRUE
    /\ wpc' = [w \in Workers |-> IF w <= nworkers THEN "new_page" ELSE "idle"]
    /\ pc' = "loop"
    /\ UNCHANGED notColl
    /\ UNCHANGED <<codes, batch, concurrency, jobs, results, done, ok, ng, buf, store,
                   flushes, witem, lock, emitted, returned, wpage, qps, ivl, exitKind, tallyPrinted>>

\* aggregate with the success not counted in ok
aggregate_uncounted(r) ==
    IF ~r.err /\ r.isdata
    THEN [success |-> TRUE, done |-> done + 1, ok |-> ok, ng |-> ng,
          buf |-> Append(buf, make_row(r))]
    ELSE [success |-> FALSE, done |-> done + 1, ok |-> ok, ng |-> ng + 1, buf |-> buf]

\* aggregate with the new row put in front of the buffer
aggregate_prepending(r) ==
    IF ~r.err /\ r.isdata
    THEN [success |-> TRUE, done |-> done + 1, ok |-> ok + 1, ng |-> ng,
          buf |-> <<make_row(r)>> \o buf]
    ELSE [success |-> FALSE, done |-> done + 1, ok |-> ok, ng |-> ng + 1, buf |-> buf]

\* lines 515-522 for one result, up to the flush test
aggregate(r) ==
    IF ~r.err /\ r.isdata
    THEN [success |-> TRUE, done |-> done + 1, ok |-> ok + 1, ng |-> ng,
          buf |-> Append(buf, make_row(r))]
    ELSE [success |-> FALSE, done |-> done + 1, ok |-> ok, ng |-> ng + 1, buf |-> buf]

\* flush_due with > for >=
flush_due_late(b) == Len(b) > batch

\* line 519
flush_due(b) == Len(b) >= batch

\* final_flush_due of a finally block that only closes and prints
final_flush_never(b) == FALSE

\* line 528
final_flush_due(b) == b # <<>>

\* cur.executemany(insert_sql, rows); conn.commit(): every row is committed, or
\* the call raises and the store stays as it was
executemany(st, rows, written) == IF written THEN upsert(st, rows) ELSE st

flush_record(rows, where, written) == [rows |-> rows, at |-> where, committed |-> written]

\* The finally block (lines 527-531), which runs with no await as soon as the
\* loop is left: the rest of buf is written, without clearing buf, then the
\* connection is closed and the tally printed; a write error propagates
\* before close and print. b, st, fl: buf, store, flushes on entry.
finally_block(b, st, fl, written) ==
    IF final_flush_due(b)
    THEN [store   |-> executemany(st, b, written),
          flushes |-> Append(fl, flush_record(b, "finally", written)),
          tally   |-> written]
    ELSE [store |-> st, flushes |-> fl, tally |-> TRUE]

\* One turn of the aggregator loop (lines 513-525), and the finally block when
\* the turn is the last one: done reaches total, or the flush raises, which
\* leaves the loop with buf not cleared.
AggregatorStep ==
    /\ pc = "loop" /\ done < total
    /\ results # <<>>
    /\ LET r == Head(results)
           a == aggregate(r)
           flush == a.success /\ flush_due(a.buf)
       IN  /\ results' = Tail(results)
           /\ done' = a.done /\ ok' = a.ok /\ ng' = a.ng
           /\ \E written \in (IF flush THEN BOOLEAN ELSE {TRUE}),
                 written2 \in BOOLEAN :
                LET b1 == IF flush /\ written THEN <<>> ELSE a.buf
                    st1 == IF flush THEN executemany(store, a.buf, written) ELSE store
                    fl1 == IF flush THEN Append(flushes, flush_record(a.buf, "loop", written))
                           ELSE flushes
                    leave == ~written \/ a.done >= total
                    fin == finally_block(b1, st1, fl1, written2)
                IN  /\ buf' = b1
                    /\ IF leave
                       THEN /\ store' = fin.store
                            /\ flushes' = fin.flushes
                            /\ tallyPrinted' = fin.tally
                            /\ exitKind' = IF written THEN "normal" ELSE "store_error"
                            /\ pc' = "ctx_exit"
                       ELSE /\ store' = st1
                            /\ flushes' = fl1
                            /\ written2
                            /\ UNCHANGED <<tallyPrinted, exitKind, pc>>
    /\ UNCHANGED notColl
    /\ UNCHANGED <<codes, batch, concurrency, jobs, wpc, witem, lock, emitted, returned, wpage, qps, ivl, ctxOpen>>

\* The run is interrupted (KeyboardInterrupt, cancellation of the main task)
\* while the aggregator awaits results.get(): CancelledError leaves the loop
\* and the finally block runs.
Interrupt ==
    /\ pc = "loop" /\ done < total
    /\ \E written \in BOOLEAN :
         LET fin == finally_block(buf, store, flushes, written)
         IN  /\ store' = fin.store
             /\ flushes' = fin.flushes
             /\ tallyPrinted' = fin.tally
    /\ exitKind' = "cancelled"
    /\ pc' = "ctx_exit"
    /\ UNCHANGED notColl
    /\ UNCHANGED <<codes, batch, concurrency, jobs, results, done, ok, ng, buf,
                   wpc, witem, lock, emitted, returned, wpage, qps, ivl, ctxOpen>>

\* playwright_context, lines 342-344: context.close(), browser.close(); run() ends
CtxExit ==
    /\ pc = "ctx_exit"
    /\ ctxOpen' = FALSE
    /\ pc' = "returned"
    /\ UNCHANGED notColl
    /\ UNCHANGED <<codes, batch, concurrency, jobs, results, done, ok, ng, buf, store,
                   flushes, wpc, witem, lock, emitted, returned, wpage, qps, ivl, exitKind, tallyPrinted>>

-----------------------------------------------------------------------------
(* worker(): one task per worker, lines 453-469 *)

Live(w) == wpc[w] \in {"new_page", "get", "acquire", "sleep", "fetch"}

workerUnchanged == <<notColl, pc, codes, batch, concurrency, done, ok, ng, buf, store, flushes,
                     qps, ivl, exitKind, tallyPrinted, ctxOpen>>

\* line 454: ctx.new_page() returns a page or raises, which ends the task
NewPage(w) ==
    /\ pc \in {"loop", "ctx_exit"}
    /\ wpc[w] = "new_page"
    /\ \E opened \in BOOLEAN :
         /\ wpc' = [wpc EXCEPT ![w] = IF opened THEN "get" ELSE "failed"]
         /\ wpage' = [wpage EXCEPT ![w] = IF opened THEN new_page(w) ELSE 0]
    /\ UNCHANGED <<workerUnchanged, jobs, results, witem, lock, emitted, returned>>

\* lines 457-460: jobs.get(); None leaves the loop and closes the page
Get(w) ==
    /\ pc \in {"loop", "ctx_exit"}
    /\ wpc[w] = "get"
    /\ jobs # <<>>
    /\ jobs' = Tail(jobs)
    /\ IF Head(jobs) = None
       THEN /\ wpc' = [wpc EXCEPT ![w] = "stopped"]
            /\ UNCHANGED witem
       ELSE /\ wpc' = [wpc EXCEPT ![w] = "acquire"]
            /\ witem' = [witem EXCEPT ![w] = Head(jobs)]
    /\ UNCHANGED <<workerUnchanged, results, lock, emitted, returned, wpage>>

\* line 461, bucket.acquire() entered: the lock is taken (lines 154-157)
AcquireLock(w) ==
    /\ pc \in {"loop", "ctx_exit"}
    /\ wpc[w] = "acquire"
    /\ lock = 0
    /\ lock' = w
    /\ wpc' = [wpc EXCEPT ![w] = "sleep"]
    /\ UNCHANGED <<workerUnchanged, jobs, results, witem, emitted, returned, wpage>>

\* line 158 and the end of `async with`: acquire() returns, the fetch starts
AcquireReturn(w) ==
    /\ pc \in {"loop", "ctx_exit"}
    /\ wpc[w] = "sleep"
    /\ lock' = 0
    /\ wpc' = [wpc EXCEPT ![w] = "fetch"]
    /\ UNCHANGED <<workerUnchanged, jobs, results, witem, emitted, returned, wpage>>

\* lines 462-467: fetch_all_for_code returns (or raises), the result tuple is
\* put on the result queue, and the worker goes back to jobs.get()
\* a worker that puts its result tuple twice
worker_put_twice(w, fetched) ==
    results \o <<result_tuple(witem[w], fetched), result_tuple(witem[w], fetched)>>

worker_put(w, fetched) == Append(results, result_tuple(witem[w], fetched))

\* a worker that writes its row to the store itself
FetchReturn_writing(w) ==
    /\ pc \in {"loop", "ctx_exit"}
    /\ wpc[w] = "fetch"
    /\ \E fails \in [Fns -> 0..RETRIES] :
         LET fetched == fetch_all_for_code(fails, witem[w]) IN
         /\ results' = worker_put(w, fetched)
         /\ returned' = [returned EXCEPT ![witem[w]] = [got |-> TRUE, data |-> fetched.data]]
         /\ store' = upsert(store, <<make_row(result_tuple(witem[w], fetched))>>)
    /\ emitted' = [emitted EXCEPT ![witem[w]] = @ + 1]
    /\ witem' = [witem EXCEPT ![w] = None]
    /\ wpc' = [wpc EXCEPT ![w] = "get"]
    /\ UNCHANGED notColl
    /\ UNCHANGED <<pc, codes, batch, concurrency, done, ok, ng, buf, flushes, qps, ivl,
                   exitKind, tallyPrinted, ctxOpen, jobs, lock, wpage>>

FetchReturn(w) ==
    /\ pc \in {"loop", "ctx_exit"}
    /\ wpc[w] = "fetch"
    /\ \E fails \in [Fns -> 0..RETRIES] :
         LET fetched == fetch_all_for_code(fails, witem[w]) IN
         /\ results' = worker_put(w, fetched)
         /\ returned' = [returned EXCEPT ![witem[w]] =
                            IF fetched.raised THEN @ ELSE [got |-> TRUE, data |-> fetched.data]]
    /\ emitted' = [emitted EXCEPT ![witem[w]] = @ + (Len(results') - Len(results))]
    /\ witem' = [witem EXCEPT ![w] = None]
    /\ wpc' = [wpc EXCEPT ![w] = "get"]
    /\ UNCHANGED <<workerUnchanged, jobs, lock, wpage>>

WorkerStep(w) ==
    \/ NewPage(w)
    \/ Get(w)
    \/ AcquireLock(w)
    \/ AcquireReturn(w)
    \/ FetchReturn(w)

\* asyncio.run() cancels every task still pending as soon as run() has ended,
\* so a worker takes no other step from then on: CancelledError is raised at
\* each worker's await; it is not an Exception, so line 465 does not catch
\* it; the finally closes the page and `async with` releases the lock.
CancelWorkers ==
    /\ pc = "returned"
    /\ wpc' = [w \in Workers |-> IF Live(w) THEN "cancelled" ELSE wpc[w]]
    /\ lock' = 0
    /\ pc' = "exited"
    /\ UNCHANGED notColl
    /\ UNCHANGED <<codes, batch, concurrency, jobs, results, done, ok, ng, buf, store,
                   flushes, witem, emitted, returned, wpage, qps, ivl, exitKind, tallyPrinted, ctxOpen>>

NextColl ==
    \/ MainStart
    \/ Seed
    \/ StartWorkers
    \/ AggregatorStep
    \/ Interrupt
    \/ CtxExit
    \/ CancelWorkers
    \/ \E w \in Workers : WorkerStep(w)

-----------------------------------------------------------------------------
(* TokenBucket (lines 148-158) on a clock. A caller that finds the lock held *)
(* waits outside; the holder keeps the lock across its sleep. A sleep        *)
(* requested until _next wakes at that instant or at any later one.          *)

MaxTime == 6          \* last instant of the clock
MaxInterval == 2      \* longest interval, in ticks
NumCallers == 2       \* concurrent callers of acquire()
MaxCalls == 3         \* acquire() calls in one behaviour

Callers == 1..NumCallers

InitBucket ==
    /\ clock = 0
    /\ interval \in 1..MaxInterval
    /\ bnext = 0                            \* line 152: _next = time.monotonic()
    /\ block = 0
    /\ cpc = [c \in Callers |-> "out"]
    /\ cnow = [c \in Callers |-> 0]
    /\ rets = <<>>
    /\ nexts = <<0>>
    /\ nows = <<>>

Tick ==
    /\ clock < MaxTime
    /\ clock' = clock + 1
    /\ UNCHANGED notBucket
    /\ UNCHANGED <<interval, bnext, block, cpc, cnow, rets, nexts, nows>>

\* a bucket that counts the next slot from the last one, whenever that was
reserve_credit(now) == bnext + interval

\* line 158, with the `now` read at line 155
reserve(now) == Max(now, bnext) + interval

CallsStarted == Len(rets) + Cardinality({c \in Callers : cpc[c] = "sleeping"})

\* acquire() entered without taking the lock
AcquireEnter_unlocked(c) ==
    /\ cpc[c] = "out"
    /\ CallsStarted < MaxCalls
    /\ cnow' = [cnow EXCEPT ![c] = clock]
    /\ IF clock < bnext
       THEN /\ block' = c
            /\ cpc' = [cpc EXCEPT ![c] = "sleeping"]
            /\ UNCHANGED <<bnext, rets, nexts, nows>>
       ELSE /\ bnext' = reserve(clock)
            /\ nexts' = Append(nexts, bnext')
            /\ rets' = Append(rets, clock)
            /\ nows' = Append(nows, clock)
            /\ UNCHANGED <<block, cpc>>
    /\ UNCHANGED notBucket
    /\ UNCHANGED <<clock, interval>>

\* lines 154-156: the lock is free, `now` is read; with now >= _next there is
\* no await and acquire() returns at once
AcquireEnter(c) ==
    /\ cpc[c] = "out"
    /\ block = 0
    /\ CallsStarted < MaxCalls
    /\ cnow' = [cnow EXCEPT ![c] = clock]
    /\ IF clock < bnext
       THEN /\ block' = c
            /\ cpc' = [cpc EXCEPT ![c] = "sleeping"]
            /\ UNCHANGED <<bnext, rets, nexts, nows>>
       ELSE /\ bnext' = reserve(clock)
            /\ nexts' = Append(nexts, bnext')
            /\ rets' = Append(rets, clock)
            /\ nows' = Append(nows, clock)
            /\ UNCHANGED <<block, cpc>>
    /\ UNCHANGED notBucket
    /\ UNCHANGED <<clock, interval>>

\* lines 157-158: asyncio.sleep(_next - now) is over, _next is set, the lock
\* is released and acquire() returns
AcquireWake(c) ==
    /\ cpc[c] = "sleeping"
    /\ clock >= bnext
    /\ bnext' = reserve(cnow[c])
    /\ nexts' = Append(nexts, bnext')
    /\ rets' = Append(rets, clock)
    /\ nows' = Append(nows, cnow[c])
    /\ block' = 0
    /\ cpc' = [cpc EXCEPT ![c] = "out"]
    /\ UNCHANGED notBucket
    /\ UNCHANGED <<clock, interval, cnow>>

NextBucket ==
    \/ Tick
    \/ \E c \in Callers : AcquireEnter(c)
    \/ \E c \in Callers : AcquireWake(c)

-----------------------------------------------------------------------------
(* The target loop of the sequential scraper, gated_page_scraper.py 559-598 *)

MaxTargets == 2       \* longest target list

WRITE_ATTEMPTS == 6

MIN_PAUSE == Fin(1, 20)             \* 0.05 s

\* the --qps values tried: none, negative, the default, one above 1/0.05, inf, nan
SeqQpsValues == {Fin(0, 1), Fin(-1, 1), Fin(7, 10), Fin(40, 1), PosInf, NaN}

\* the pause without its floor of 0.05 s
polite_sleep_unfloored(q) ==
    IF py_gt(q, Fin(0, 1)) THEN py_inverse(q) ELSE NoFloat

\* polite_sleep: the time slept, in seconds; NoFloat when there is no sleep
polite_sleep(q) ==
    IF py_gt(q, Fin(0, 1)) THEN py_max(MIN_PAUSE, py_inverse(q)) ELSE NoFloat

InitSeq ==
    /\ sqps \in SeqQpsValues
    /\ slog = <<>>
    /\ spc = "nav"
    /\ targets \in {[i \in 1..n |-> i] : n \in 1..MaxTargets}
    /\ sidx = 1
    /\ sattempt = 0
    /\ sok = 0 /\ sng = 0
    /\ committed = {}
    /\ swrites = [t \in 1..MaxTargets |-> 0]

\* a navigation whose failure is counted nowhere
SeqNavigate_uncounted ==
    /\ spc = "nav"
    /\ slog' = Append(slog, [ev |-> "nav", t |-> sidx, d |-> NoFloat])
    /\ \E loaded \in BOOLEAN :
         IF loaded
         THEN /\ spc' = "write"
              /\ sattempt' = 0
              /\ UNCHANGED sng
         ELSE /\ spc' = "pause"
              /\ UNCHANGED <<sng, sattempt>>
    /\ UNCHANGED notSeq
    /\ UNCHANGED <<targets, sidx, sok, committed, swrites, sqps>>

\* lines 566-577: the navigation raises, which counts the target in ng, or
\* the page is read (every fetch error swallowed) and the row is built
SeqNavigate ==
    /\ spc = "nav"
    /\ slog' = Append(slog, [ev |-> "nav", t |-> sidx, d |-> NoFloat])
    /\ \E loaded \in BOOLEAN :
         IF loaded
         THEN /\ spc' = "write"
              /\ sattempt' = 0
              /\ UNCHANGED sng
         ELSE /\ spc' = "pause"
              /\ sng' = sng + 1
              /\ UNCHANGED sattempt
    /\ UNCHANGED notSeq
    /\ UNCHANGED <<targets, sidx, sok, committed, swrites, sqps>>

\* lines 578-590, one turn of `for i in range(6)`: execute + commit succeeds
\* and breaks; a locked/busy error sleeps and continues; any other error is
\* raised to line 591. After the loop, by break or by exhaustion, ok += 1.
SeqWrite ==
    /\ spc = "write"
    /\ swrites' = [swrites EXCEPT ![sidx] = @ + 1]
    /\ \E outcome \in {"committed", "locked", "error"} :
         /\ committed' = IF outcome = "committed" THEN committed \cup {sidx} ELSE committed
         /\ sattempt' = IF outcome = "locked" THEN sattempt + 1 ELSE sattempt
         /\ sng' = IF outcome = "error" THEN sng + 1 ELSE sng
         /\ sok' = IF outcome = "committed"
                       \/ (outcome = "locked" /\ sattempt + 1 >= WRITE_ATTEMPTS)
                   THEN sok + 1 ELSE sok
         /\ spc' = IF outcome = "locked" /\ sattempt + 1 < WRITE_ATTEMPTS
                   THEN "write" ELSE "pause"
    /\ UNCHANGED notSeq
    /\ UNCHANGED <<targets, sidx, sqps, slog>>

\* line 595, polite_sleep(args.qps), then the next target or the final tally
SeqPause ==
    /\ spc = "pause"
    /\ slog' = IF polite_sleep(sqps) = NoFloat THEN slog
               ELSE Append(slog, [ev |-> "sleep", t |-> sidx, d |-> polite_sleep(sqps)])
    /\ IF sidx < Len(targets)
       THEN sidx' = sidx + 1 /\ spc' = "nav"
       ELSE sidx' = sidx /\ spc' = "tally"
    /\ UNCHANGED notSeq
    /\ UNCHANGED <<targets, sattempt, sok, sng, committed, swrites, sqps>>

NextSeq ==
    \/ SeqNavigate
    \/ SeqWrite
    \/ SeqPause

-----------------------------------------------------------------------------
(* One worker task step by step: worker() lines 457-467 with the body of     *)
(* fetch_all_for_code (lines 438-450) unfolded. Every call of a page-fetch   *)
(* function returns its chunk, raises a timeout, or raises another           *)
(* exception; delays are in milliseconds.                                    *)

MaxFetchJobs == 2     \* longest job queue of the worker
NumFetchFns == 2      \* how many of the page-fetch functions of line 440 are kept

BASE_DELAY == 800     \* 0.8 s
BACKOFF_NUM == 18     \* delay *= 1.8
BACKOFF_DEN == 10

FetchFns == 1..NumFetchFns
Outcomes == {"ok", "timeout", "fatal"}

\* the delay kept as it is after a sleep
next_delay_flat(d) == d

\* line 449: delay *= 1.8
next_delay(d) == (d * BACKOFF_NUM) \div BACKOFF_DEN

InitFetch ==
    /\ fpc = "get"
    /\ fqueue \in {[i \in 1..n |-> i] : n \in 1..MaxFetchJobs}
    /\ fjob = None
    /\ ffn = 1
    /\ fattempt = 0
    /\ fdelay = BASE_DELAY
    /\ fdata = {}
    /\ flog = <<>>
    /\ facquires = 0
    /\ fresults = <<>>

\* lines 457-460: jobs.get(); None leaves the loop
FGet ==
    /\ fpc = "get"
    /\ fqueue # <<>>
    /\ fqueue' = Tail(fqueue)
    /\ IF Head(fqueue) = None
       THEN /\ fpc' = "stopped"
            /\ UNCHANGED <<fjob, flog, facquires>>
       ELSE /\ fpc' = "acquire"
            /\ fjob' = Head(fqueue)
            /\ flog' = <<>>
            /\ facquires' = 0
    /\ UNCHANGED notFetch
    /\ UNCHANGED <<ffn, fattempt, fdelay, fdata, fresults>>

\* line 461: bucket.acquire(); then fetch_all_for_code starts with data = {},
\* the first function, delay = BASE_DELAY, attempt 0
FAcquire ==
    /\ fpc = "acquire"
    /\ facquires' = facquires + 1
    /\ fdata' = {}
    /\ ffn' = 1
    /\ fattempt' = 0
    /\ fdelay' = BASE_DELAY
    /\ fpc' = "call"
    /\ UNCHANGED notFetch
    /\ UNCHANGED <<fqueue, fjob, flog, fresults>>

\* the attempts of a function going on after its chunk was returned
attempts_over_at_last(out, attempt) == attempt >= RETRIES - 1

\* lines 442-447: `break` after a chunk, or range(RETRIES) is exhausted
attempts_over(out, attempt) == out = "ok" \/ attempt >= RETRIES - 1

\* lines 443-449, one `chunk = await fn(page, code)`: a chunk is merged and
\* ends the attempts of fn; an exception of either kind is swallowed, and is
\* followed by a sleep unless the attempt was the last. When the attempts of
\* the last function are over, fetch_all_for_code returns data and the worker
\* puts the result tuple (lines 463-464).
FCall ==
    /\ fpc = "call"
    /\ \E out \in Outcomes :
         LET over == attempts_over(out, fattempt)
             data == IF out = "ok" THEN fdata \cup {ffn} ELSE fdata
             fetched == [raised |-> FALSE, data |-> [f \in data |-> fjob]]
         IN
         /\ fdata' = data
         /\ IF ~over
            THEN /\ flog' = flog \o <<[fn |-> ffn, ev |-> out, n |-> fattempt],
                                      [fn |-> ffn, ev |-> "sleep", n |-> fdelay]>>
                 /\ fpc' = "backoff"
                 /\ UNCHANGED <<ffn, fattempt, fdelay, fresults>>
            ELSE /\ flog' = Append(flog, [fn |-> ffn, ev |-> out, n |-> fattempt])
                 /\ IF ffn < NumFetchFns
                    THEN /\ ffn' = ffn + 1
                         /\ fattempt' = 0
                         /\ fdelay' = BASE_DELAY
                         /\ fpc' = "call"
                         /\ UNCHANGED fresults
                    ELSE /\ fresults' = Append(fresults, result_tuple(fjob, fetched))
                         /\ fpc' = "get"
                         /\ UNCHANGED <<ffn, fattempt, fdelay>>
    /\ UNCHANGED notFetch
    /\ UNCHANGED <<fqueue, fjob, facquires>>

\* a worker that takes the bucket again before every retry
FBackoff_acquiring ==
    /\ fpc = "backoff"
    /\ fdelay' = next_delay(fdelay)
    /\ fattempt' = fattempt + 1
    /\ facquires' = facquires + 1
    /\ fpc' = "call"
    /\ UNCHANGED notFetch
    /\ UNCHANGED <<fqueue, fjob, ffn, fdata, flog, fresults>>

\* lines 448-449: asyncio.sleep(delay) is over, delay *= 1.8, next attempt
FBackoff ==
    /\ fpc = "backoff"
    /\ fdelay' = next_delay(fdelay)
    /\ fattempt' = fattempt + 1
    /\ fpc' = "call"
    /\ UNCHANGED notFetch
    /\ UNCHANGED <<fqueue, fjob, ffn, fdata, flog, facquires, fresults>>

NextFetch ==
    \/ FGet
    \/ FAcquire
    \/ FCall
    \/ FBackoff

-----------------------------------------------------------------------------
(* main() of gated_page_scraper.py from its first line. A URL is a sequence  *)
(* of pieces of text: "http" is a scheme with its "://", "a" and "b" are     *)
(* hosts, "//a" and "//b" are hosts written as a network path, ".x" goes on  *)
(* with the host name, "/p" is an absolute path and "p" a relative one.      *)

MaxRows == 1          \* rows of consensus_links selected

ACCEPTED == {"1", "true", "TRUE", "yes", "YES"}

\* values of the environment variable ALLOW_AUTOMATION; "0" when it is unset
EnvValues == {"0", "1", "true", "True", "yes", "on", ""}

OriginA == <<"http", "a">>
OriginB == <<"http", "b">>
BASE_ORIGIN == OriginA

Urls ==
    {<<>>, <<"/p">>, <<"p">>, <<"//b", "/p">>,
     OriginA \o <<"/p">>, OriginB \o <<"/p">>, OriginA \o <<".x", "/p">>, OriginA}

RECURSIVE SeqsUpTo(_, _)
SeqsUpTo(S, n) ==
    IF n = 0 THEN {<<>>}
    ELSE SeqsUpTo(S, n - 1) \cup {Append(q, x) : q \in SeqsUpTo(S, n - 1), x \in S}

\* u.startswith(prefix)
startswith(u, prefix) == Len(prefix) <= Len(u) /\ SubSeq(u, 1, Len(prefix)) = prefix

\* urljoin(base, u) for a base without a path: a network path keeps the
\* scheme of the base and brings its own host, a path goes under the base
urljoin(base, u) ==
    IF Head(u) \in {"//a", "//b"}
    THEN <<Head(base), IF Head(u) = "//a" THEN "a" ELSE "b">> \o Tail(u)
    ELSE IF Head(u) = "p" THEN base \o <<"/p">> \o Tail(u)
    ELSE base \o u

normalize_url(u) ==
    IF u = <<>> THEN <<>>
    ELSE IF Head(u) = "http" THEN u
    ELSE urljoin(BASE_ORIGIN, u)

is_allowed(u) == \E i \in DOMAIN gorigins : startswith(u, gorigins[i])

\* lines 463-467: the rows with a URL, normalized, that are allowed
RECURSIVE load_targets(_)
load_targets(rows) ==
    IF rows = <<>> THEN <<>>
    ELSE LET u2 == normalize_url(Head(rows)) IN
         (IF Head(rows) # <<>> /\ is_allowed(u2) THEN <<u2>> ELSE <<>>)
             \o load_targets(Tail(rows))

\* the switch taken as set whatever the environment
ALLOW_AUTOMATION_forced == TRUE

\* line 36
ALLOW_AUTOMATION == genv \in ACCEPTED

InitGate ==
    /\ gpc = "start"
    /\ genv \in EnvValues
    /\ gorigins \in {<<OriginA>>, <<OriginB>>, <<OriginA, OriginB>>}
    /\ glogin \in {OriginA \o <<"/login">>, OriginB \o <<"/login">>}
    /\ grows \in SeqsUpTo(Urls, MaxRows)
    /\ gtargets = <<>>
    /\ gidx = 0
    /\ ggets = <<>>
    /\ gdb = FALSE
    /\ gbrowser = FALSE

\* lines 480-502: the banner, the switch (sys.exit(0) when it is off), the
\* arguments, and the credentials (sys.exit(1) when one is empty)
GateCheck ==
    /\ gpc = "start"
    /\ \E credentials \in BOOLEAN :
         gpc' = IF ALLOW_AUTOMATION /\ credentials THEN "db" ELSE "exited"
    /\ UNCHANGED notGate
    /\ UNCHANGED <<genv, gorigins, glogin, grows, gtargets, gidx, ggets, gdb, gbrowser>>

\* lines 506-524: the connection is opened and the tables made (an error
\* exits), then load_targets; with no target main() exits
GateLoadTargets ==
    /\ gpc = "db"
    /\ gdb' = TRUE
    /\ \E dbok \in BOOLEAN :
         IF dbok
         THEN /\ gtargets' = load_targets(grows)
              /\ gpc' = IF gtargets' = <<>> THEN "exited" ELSE "browser"
         ELSE /\ gpc' = "exited"
              /\ UNCHANGED gtargets
    /\ UNCHANGED notGate
    /\ UNCHANGED <<genv, gorigins, glogin, grows, gidx, ggets, gbrowser>>

\* lines 527-531: the browser is started and sent to the login page
GateLogin ==
    /\ gpc = "browser"
    /\ gbrowser' = TRUE
    /\ ggets' = Append(ggets, glogin)
    /\ gidx' = 1
    /\ gpc' = "loop"
    /\ UNCHANGED notGate
    /\ UNCHANGED <<genv, gorigins, glogin, grows, gtargets, gdb>>

\* lines 562-567: the next target, driver.get(start_url)
GateNavigate ==
    /\ gpc = "loop"
    /\ ggets' = Append(ggets, gtargets[gidx])
    /\ gidx' = gidx + 1
    /\ gpc' = IF gidx >= Len(gtargets) THEN "tally" ELSE "loop"
    /\ UNCHANGED notGate
    /\ UNCHANGED <<genv, gorigins, glogin, grows, gtargets, gdb, gbrowser>>

NextGate ==
    \/ GateCheck
    \/ GateLoadTargets
    \/ GateLogin
    \/ GateNavigate

-----------------------------------------------------------------------------
(* Specifications *)

\* the variables of a part that does not run
IdleColl ==
    /\ pc = "off" /\ codes = <<>> /\ batch = 1 /\ concurrency = 0
    /\ jobs = <<>> /\ results = <<>> /\ done = 0 /\ ok = 0 /\ ng = 0 /\ buf = <<>>
    /\ store = [k \in Keys |-> NoRow] /\ flushes = <<>>
    /\ wpc = [w \in Workers |-> "idle"] /\ witem = [w \in Workers |-> None]
    /\ lock = 0 /\ emitted = [j \in 1..MaxJobs |-> 0] /\ exitKind = "none"
    /\ returned = [j \in 1..MaxJobs |-> NoFetch] /\ wpage = [w \in Workers |-> 0]
    /\ qps = DEFAULT_QPS /\ ivl = NoFloat
    /\ tallyPrinted = FALSE /\ ctxOpen = FALSE

IdleBucket ==
    /\ clock = 0 /\ interval = 1 /\ bnext = 0 /\ block = 0
    /\ cpc = [c \in Callers |-> "off"] /\ cnow = [c \in Callers |-> 0]
    /\ rets = <<>> /\ nexts = <<>> /\ nows = <<>>

IdleSeq ==
    /\ spc = "off" /\ targets = <<>> /\ sidx = 0 /\ sattempt = 0
    /\ sok = 0 /\ sng = 0 /\ committed = {}
    /\ swrites = [t \in 1..MaxTargets |-> 0]
    /\ sqps = DEFAULT_QPS /\ slog = <<>>

IdleGate ==
    /\ gpc = "off" /\ genv = "0" /\ gorigins = <<>> /\ glogin = <<>> /\ grows = <<>>
    /\ gtargets = <<>> /\ gidx = 0 /\ ggets = <<>> /\ gdb = FALSE /\ gbrowser = FALSE

IdleFetch ==
    /\ fpc = "off" /\ fqueue = <<>> /\ fjob = None /\ ffn = 1 /\ fattempt = 0
    /\ fdelay = BASE_DELAY /\ fdata = {} /\ flog = <<>> /\ facquires = 0
    /\ fresults = <<>>

Init == InitColl /\ IdleBucket /\ IdleSeq /\ IdleFetch /\ IdleGate
Next == NextColl
Spec == Init /\ [][Next]_vars

BucketInit == IdleColl /\ InitBucket /\ IdleSeq /\ IdleFetch /\ IdleGate
BucketNext == NextBucket
SpecBucket == BucketInit /\ [][BucketNext]_vars

SeqInit == IdleColl /\ IdleBucket /\ InitSeq /\ IdleFetch /\ IdleGate
SeqNext == NextSeq
SpecSeq == SeqInit /\ [][SeqNext]_vars

\* the collector without interrupts, every task scheduled fairly: the event
\* loop runs every task that can run, and every await of a call returns
LiveNext ==
    \/ MainStart
    \/ Seed
    \/ StartWorkers
    \/ AggregatorStep
    \/ CtxExit
    \/ CancelWorkers
    \/ \E w \in Workers : WorkerStep(w)

SpecLive ==
    /\ Init
    /\ [][LiveNext]_vars
    /\ WF_vars(MainStart) /\ WF_vars(Seed) /\ WF_vars(StartWorkers)
    /\ WF_vars(AggregatorStep) /\ WF_vars(CtxExit) /\ WF_vars(CancelWorkers)
    /\ \A w \in Workers : WF_vars(WorkerStep(w))

FetchInit == IdleColl /\ IdleBucket /\ IdleSeq /\ InitFetch /\ IdleGate
FetchNext == NextFetch
SpecFetch == FetchInit /\ [][FetchNext]_vars

\* main() and run() up to line 506, for every --qps and --concurrency tried
InitArgs ==
    /\ pc = "main"
    /\ codes \in {[i \in 1..n |-> i] : n \in 0..1}
    /\ batch = 1
    /\ concurrency \in ConcurrencyValues
    /\ qps \in QpsValues
    /\ ivl = NoFloat
    /\ jobs = <<>> /\ results = <<>> /\ done = 0 /\ ok = 0 /\ ng = 0 /\ buf = <<>>
    /\ store = [k \in Keys |-> NoRow] /\ flushes = <<>>
    /\ wpc = [w \in Workers |-> "idle"] /\ witem = [w \in Workers |-> None]
    /\ lock = 0 /\ emitted = [j \in 1..MaxJobs |-> 0] /\ exitKind = "none"
    /\ returned = [j \in 1..MaxJobs |-> NoFetch] /\ wpage = [w \in Workers |-> 0]
    /\ tallyPrinted = FALSE /\ ctxOpen = FALSE

ArgsInit == InitArgs /\ IdleBucket /\ IdleSeq /\ IdleFetch /\ IdleGate

GateInit == IdleColl /\ IdleBucket /\ IdleSeq /\ IdleFetch /\ InitGate
GateNext == NextGate
SpecGate == GateInit /\ [][GateNext]_vars
ArgsNext == MainStart \/ Seed \/ StartWorkers
SpecArgs == ArgsInit /\ [][ArgsNext]_vars

-----------------------------------------------------------------------------
(* Properties *)

Range(q) == {q[i] : i \in DOMAIN q}

RunOver == pc \in {"ctx_exit", "returned", "exited"}    \* the finally block has run
RunExited == pc \in {"returned", "exited"}             \* run() has ended

RECURSIVE SumLen(_)
SumLen(fl) == IF fl = <<>> THEN 0 ELSE Len(Head(fl).rows) + SumLen(Tail(fl))

\* job j's row was committed by some executemany
Written(j) ==
    \E f \in DOMAIN flushes :
        flushes[f].committed /\ \E i \in DOMAIN flushes[f].rows : flushes[f].rows[i].job = j

\* stop markers put on the job queue so far: those still queued and those a
\* worker has dequeued
StopMarkers ==
    Cardinality({i \in DOMAIN jobs : jobs[i] = None})
        + Cardinality({w \in Workers : wpc[w] = "stopped"})

\* C1: the instants at which any two acquire() calls return are at least
\* `interval` apart, for every interleaving of the callers and every wake-up
\* at or after the requested instant.
C1_ReturnsSpaced ==
    \A i, j \in DOMAIN rets : i < j => rets[j] - rets[i] >= interval

\* C2: once run() and its tasks are over, every seeded job that a worker took
\* from the job queue has put exactly one result tuple on the result queue,
\* also when the worker was cancelled with the job in flight.
C2_ExactlyOneResult ==
    pc = "exited" => \A j \in 1..total : j \notin Range(jobs) => emitted[j] = 1

\* C3: a job whose every fetch attempt failed (no chunk in its data) is put as
\* a Failure, and no row of such a job is committed to the store.
C3_AllFailedIsFailure ==
    /\ \A i \in DOMAIN results : DOMAIN results[i].data = {} => results[i].err
    /\ \A k \in Keys : store[k] # NoRow => \E f \in Fns : store[k].fields[f] # 0

\* C4: done = ok + ng and done <= total_jobs after every processed result,
\* none of done, ok, ng ever decreases, and a loop that ends normally ends
\* with done = ok + ng = total_jobs.
C4_Counters ==
    /\ [](done = ok + ng /\ done <= total)
    /\ [][done' >= done /\ ok' >= ok /\ ng' >= ng]_vars
    /\ [](exitKind = "normal" => done = total /\ ok + ng = total)

C4_Witness ==
    exitKind = "normal" /\ done = 3 /\ total = 3 /\ ok + ng = 3

\* C5: after a loop that ended with done = total_jobs, run() has enqueued one
\* stop marker per started worker by the time it ends (markers still queued
\* plus markers dequeued by workers that stopped).
C5_StopMarkerPerWorker ==
    (RunExited /\ exitKind = "normal") => StopMarkers = nworkers

\* C6: after a loop that ended with done = total_jobs, the final tally is
\* printed and the browser context left only after every worker task has
\* exited.
C6_DoneAfterWorkersExit ==
    (exitKind = "normal" /\ (tallyPrinted \/ ~ctxOpen)) => \A w \in Workers : ~Live(w)

\* C7: once the loop is left (normally, by an error or by cancellation), every
\* row still in the buffer has been passed to the store by the executemany of
\* the finally block, and no row left the buffer without a committed flush.
C7_BufferFlushedAtExit ==
    /\ RunOver =>
         \A i \in DOMAIN buf :
             \E f \in DOMAIN flushes :
                 flushes[f].at = "finally" /\ buf[i] \in Range(flushes[f].rows)
    /\ ok = Len(buf)
            + SumLen(SelectSeq(flushes, LAMBDA f : f.at = "loop" /\ f.committed))

C7_Witness ==
    /\ pc = "ctx_exit" /\ exitKind = "cancelled"
    /\ done = 1 /\ total = 3 /\ batch = 2
    /\ Len(buf) = 1
    /\ Len(flushes) = 1 /\ flushes[1].at = "finally" /\ flushes[1].rows = buf

\* C8: when the run is stopped before all jobs are done and no store write
\* failed, every result a worker has put on the result queue is committed to
\* the store by the time run() has ended.
C8_NoSuccessLost ==
    (RunExited /\ exitKind = "cancelled" /\ \A f \in DOMAIN flushes : flushes[f].committed)
        => \A j \in 1..total : emitted[j] > 0 => Written(j)

\* C9: the buffer holds fewer than batch rows between results; in a run whose
\* loop ends normally the store receives ceil(ok / batch) executemany calls,
\* each of batch rows and made in the loop, except a last call of the
\* remainder made by the finally block; the rows passed add up to ok.
C9_BatchFlush ==
    /\ pc = "loop" => Len(buf) < batch
    /\ (RunOver /\ exitKind = "normal") =>
         LET n == Len(flushes) IN
         /\ n = (ok + batch - 1) \div batch
         /\ \A i \in 1..n :
               /\ Len(flushes[i].rows)
                     = IF i < n \/ ok % batch = 0 THEN batch ELSE ok % batch
               /\ flushes[i].at = (IF Len(flushes[i].rows) = batch THEN "loop" ELSE "finally")
         /\ SumLen(flushes) = ok

C9_Witness ==
    /\ RunOver /\ exitKind = "normal"
    /\ batch = 2 /\ ok = 3
    /\ Len(flushes) = 2
    /\ Len(flushes[1].rows) = 2 /\ Len(flushes[2].rows) = 1

\* C10: a target is counted in ok only if its row was committed: a row whose
\* write never succeeded is not dropped silently.
C10_WriteNeverSilentlyDropped ==
    sok <= Cardinality(committed)

\* jobs whose fetch came back without a single chunk: every attempt of every
\* page-fetch function raised
FailedJobs == {j \in 1..total : returned[j].got /\ DOMAIN returned[j].data = {}}

\* C11: failing jobs do not stop the run, and when the loop has ended with
\* every job processed, each job whose fetch failed is counted as one Failure
\* (in ng) and the others as Success (in ok).
C11_FailingJobsCounted ==
    exitKind = "normal" =>
        /\ ng = Cardinality(FailedJobs)
        /\ ok = total - Cardinality(FailedJobs)

\* the calls and sleeps logged for page-fetch function f, and its calls alone
LogOf(f) == SelectSeq(flog, LAMBDA e : e.fn = f)
CallsOf(f) == SelectSeq(LogOf(f), LAMBDA e : e.ev # "sleep")

\* the worker has put the result of the job it holds
JobFinished == fpc = "get" /\ fjob # None

\* f raised on its first two calls and returned its chunk on the third
TwoFailuresThenSuccess(f) ==
    /\ Len(CallsOf(f)) = 3
    /\ CallsOf(f)[1].ev # "ok" /\ CallsOf(f)[2].ev # "ok" /\ CallsOf(f)[3].ev = "ok"

ResultsOf(j, failure) ==
    {i \in DOMAIN fresults : fresults[i].job = j /\ fresults[i].err = failure}

\* C12: when a page-fetch function raised on its first two calls and returned
\* on the third, the job ends as exactly one Success and no Failure, and the
\* function's log is call, sleep of BASE_DELAY, call, sleep of BASE_DELAY*1.8,
\* call.
C12_TwoFailuresThenSuccess ==
    \A f \in FetchFns :
        (JobFinished /\ TwoFailuresThenSuccess(f)) =>
            /\ Len(LogOf(f)) = 5
            /\ [i \in 1..5 |-> LogOf(f)[i].ev = "sleep"] = <<FALSE, TRUE, FALSE, TRUE, FALSE>>
            /\ LogOf(f)[2].n = BASE_DELAY
            /\ LogOf(f)[4].n = (BASE_DELAY * 18) \div 10
            /\ Cardinality(ResultsOf(fjob, FALSE)) = 1
            /\ ResultsOf(fjob, TRUE) = {}

C12_Witness ==
    /\ JobFinished /\ TwoFailuresThenSuccess(2)
    /\ LogOf(2)[4] = [fn |-> 2, ev |-> "sleep", n |-> 1440]
    /\ Len(fresults) = 1

\* C13: a fatal exception of a page-fetch function is the last thing logged
\* for that function (no further call, no sleep), and the job then ends as a
\* Failure.
C13_FatalNotRetried ==
    /\ \A i, k \in DOMAIN flog :
          (flog[i].ev = "fatal" /\ k > i) => flog[k].fn # flog[i].fn
    /\ (JobFinished /\ \E i \in DOMAIN flog : flog[i].ev = "fatal")
          => Cardinality(ResultsOf(fjob, TRUE)) = 1

CompletedNormally ==
    /\ RunOver /\ exitKind = "normal"
    /\ \A f \in DOMAIN flushes : flushes[f].committed

\* the jobs of key k
Occurrences(k) == {j \in 1..total : codes[j] = k}

\* the stored fields are what the fetch of job j returned, "" where it
\* returned nothing
FieldsAsReturned(row, j) ==
    \A f \in Fns :
        row.fields[f] = IF f \in DOMAIN returned[j].data THEN returned[j].data[f] ELSE 0

\* C15: after a run that completed normally, a key of exactly one job is in
\* the store under its code, with the field values its fetch returned.
C15_OneRecordPerKey ==
    CompletedNormally =>
        \A j \in 1..total :
            Occurrences(codes[j]) = {j} =>
                /\ store[codes[j]] # NoRow
                /\ store[codes[j]].code = codes[j]
                /\ store[codes[j]].job = j
                /\ FieldsAsReturned(store[codes[j]], j)

C15_Witness ==
    /\ CompletedNormally /\ codes = <<1, 2, 3>>
    /\ store[2] # NoRow /\ store[2].fields[1] = 2
    /\ store[3] # NoRow /\ store[3].fields[1] = 0

\* the rows passed to the executemany calls, in the order they were passed
RECURSIVE FlushedRows(_)
FlushedRows(fl) == IF fl = <<>> THEN <<>> ELSE Head(fl).rows \o FlushedRows(Tail(fl))

LastRowOf(k) ==
    LET rows == SelectSeq(FlushedRows(flushes), LAMBDA r : r.code = k)
    IN rows[Len(rows)]

\* C16: after a run that completed normally, a key of two jobs has the one
\* record of the job flushed last, with the field values that job's fetch
\* returned, whether the two rows went in one executemany or in two.
C16_LastWriteWins ==
    CompletedNormally =>
        \A k \in Keys :
            Cardinality(Occurrences(k)) = 2 =>
                /\ store[k] = LastRowOf(k)
                /\ store[k].job \in Occurrences(k)
                /\ FieldsAsReturned(store[k], store[k].job)

C16_Witness ==
    /\ CompletedNormally /\ codes = <<1, 2, 1>> /\ batch = 2
    /\ Len(flushes) = 2
    /\ flushes[1].rows[2].job = 3
    /\ flushes[2].rows[1].job = 1
    /\ store[1].job = 1

\* the worker tasks created
Started == {w \in Workers : wpc[w] # "idle"}

\* C17: whatever --concurrency is, run() creates at least 1 and at most 8
\* worker tasks.
C17_WorkerCountClamped ==
    pc = "loop" =>
        /\ nworkers >= 1 /\ nworkers <= 8
        /\ Cardinality(Started) = nworkers

C17_Witness ==
    pc = "loop" /\ concurrency > MAX_WORKERS /\ Cardinality(Started) = 8

\* the store after the executemany calls fl, made one after the other
RECURSIVE Replay(_, _)
Replay(st, fl) ==
    IF fl = <<>> THEN st
    ELSE Replay(executemany(st, Head(fl).rows, Head(fl).committed), Tail(fl))

\* C18: every step that writes the store is a step of run() in which no
\* worker moves, and the store it leaves is that of its executemany calls
\* made one after the other.
C18_SingleWriter ==
    [][(store' # store \/ flushes' # flushes) =>
          /\ pc = "loop"
          /\ wpc' = wpc /\ witem' = witem /\ jobs' = jobs /\ lock' = lock
          /\ emitted' = emitted /\ returned' = returned
          /\ Len(flushes') > Len(flushes)
          /\ SubSeq(flushes', 1, Len(flushes)) = flushes
          /\ store' = Replay(store, SubSeq(flushes', Len(flushes) + 1, Len(flushes')))]_vars

C18_Witness ==
    /\ pc = "loop" /\ flushes # <<>> /\ flushes[1].committed
    /\ \E w \in Workers : wpc[w] = "fetch"
    /\ \E k \in Keys : store[k] # NoRow

\* max(qps, 0.0001) of a finite qps
FlooredQps == IF qps.num * EPS_DEN > qps.den THEN qps ELSE EPSILON

\* C19 as stated: for every --qps the interval constructed is a finite number
\* greater than 0 (and no division by zero occurred).
C19_IntervalPositive ==
    pc \in {"start", "loop"} => (ivl.kind = "fin" /\ ivl.den > 0 /\ ivl.num > 0)

\* C19, amended: for every finite --qps, zero and negative ones included, no
\* division by zero occurs and the interval is a finite number greater than
\* 0, equal to 1 / max(qps, 0.0001).
C19_IntervalPositiveFinite ==
    (pc \in {"start", "loop"} /\ qps.kind = "fin") =>
        /\ ivl.kind = "fin" /\ ivl.den > 0 /\ ivl.num > 0
        /\ ivl.num * FlooredQps.num = ivl.den * FlooredQps.den

C19_Witness ==
    pc = "loop" /\ qps = Fin(-1, EPS_DEN) /\ ivl = Fin(EPS_DEN, 1)

\* C20: every worker past line 454 has a page, no two workers have the same
\* page, and the workers run inside the one browser context.
C20_OwnPage ==
    /\ \A w \in Workers :
          wpc[w] \in {"get", "acquire", "sleep", "fetch"} => wpage[w] # 0
    /\ \A w1, w2 \in Workers :
          (w1 # w2 /\ wpage[w1] # 0 /\ wpage[w2] # 0) => wpage[w1] # wpage[w2]
    /\ \A w \in Workers :
          (wpage[w] # 0 /\ pc \in {"loop", "ctx_exit"}) => ctxOpen

C20_Witness ==
    /\ wpc[1] = "fetch" /\ wpc[2] = "fetch"
    /\ wpage[1] = 1 /\ wpage[2] = 2 /\ ctxOpen

SleepsOf(f) == SelectSeq(LogOf(f), LAMBDA e : e.ev = "sleep")

\* C23: for the job held, every page-fetch function is called at most RETRIES
\* times, no call follows a call that returned its chunk, a sleep follows
\* every failed call but the RETRIES-th and nothing else, so a function
\* sleeps at most RETRIES-1 times.
C23_BoundedAttempts ==
    \A f \in FetchFns :
        LET l == LogOf(f) IN
        /\ Len(CallsOf(f)) <= RETRIES
        /\ Len(SleepsOf(f)) <= RETRIES - 1
        /\ \A i \in DOMAIN l :
              /\ l[i].ev = "ok" => i = Len(l)
              /\ l[i].ev = "sleep" => (i > 1 /\ l[i - 1].ev \in {"timeout", "fatal"})
              /\ (l[i].ev \in {"timeout", "fatal"} /\ l[i].n < RETRIES - 1)
                    => (i < Len(l) /\ l[i + 1].ev = "sleep")
              /\ (l[i].ev \in {"timeout", "fatal"} /\ l[i].n = RETRIES - 1) => i = Len(l)

C23_Witness ==
    /\ JobFinished
    /\ Len(CallsOf(1)) = 3 /\ Len(SleepsOf(1)) = 2 /\ CallsOf(1)[3].ev = "timeout"
    /\ Len(CallsOf(2)) = 1 /\ SleepsOf(2) = <<>>

\* C29: bucket.acquire() is called once for each job dequeued, before the
\* first call of a page-fetch function; no further acquire() is made for the
\* job's other functions and retries, and none for a stop marker.
C29_OneAcquirePerJob ==
    /\ fpc = "acquire" => (facquires = 0 /\ flog = <<>>)
    /\ fpc \in {"call", "backoff"} => facquires = 1
    /\ JobFinished => facquires = 1
    /\ fpc = "stopped" => facquires <= 1

C29_Witness ==
    /\ JobFinished /\ facquires = 1
    /\ Len(CallsOf(1)) = 3 /\ Len(CallsOf(2)) = 2

\* C25: every acquire() leaves _next = max(now, previous _next) + interval,
\* set by the time the lock is free again; a call that finds now >= _next
\* (the bucket was idle) returns at once and leaves _next = now + interval,
\* whatever the idle time; and no call returns before the _next left by the
\* call before it.
C25_NoBurstCredit ==
    /\ Len(nows) = Len(rets)
    /\ block = 0 => Len(nexts) = Len(rets) + 1
    /\ \A i \in DOMAIN rets :
          /\ nexts[i + 1] = Max(nows[i], nexts[i]) + interval
          /\ nows[i] >= nexts[i] => (rets[i] = nows[i] /\ nexts[i + 1] = nows[i] + interval)
          /\ rets[i] >= nexts[i]
    /\ bnext = nexts[Len(nexts)]

C25_Witness ==
    /\ Len(rets) = 3
    /\ nows[2] > nexts[2] /\ rets[2] = nows[2] /\ nexts[3] = nows[2] + interval
    /\ nows[3] < nexts[3] /\ rets[3] >= nexts[3]

\* C24: once the aggregator loop is entered, the run gets to done = total and
\* the printed tally (a failed store write aside), whatever the worker tasks
\* do.
C24_RunCompletes ==
    (pc = "loop") ~>
        \/ done = total /\ tallyPrinted
        \/ \E f \in DOMAIN flushes : ~flushes[f].committed

\* C26: no worker task exists before the seeding is over; when the worker
\* tasks are created the job queue holds every job; from then on total does
\* not change and the job queue only loses its head.
C26_SeededUpFront ==
    /\ [](Started # {} => pc \notin {"main", "no_targets", "run", "start"})
    /\ [][(pc = "start" /\ pc' = "loop") => jobs = [i \in 1..total |-> i]]_vars
    /\ [][pc \notin {"main", "run"} =>
             /\ codes' = codes
             /\ jobs' = jobs \/ (jobs # <<>> /\ jobs' = Tail(jobs))]_vars

C26_Witness ==
    pc = "loop" /\ total = 3 /\ Len(jobs) = 1 /\ Cardinality(Started) = 2

\* the rows of the results handled so far, in the order the aggregator holds
\* them: those of the committed in-loop flushes, then the buffer
Handled ==
    FlushedRows(SelectSeq(flushes, LAMBDA f : f.at = "loop" /\ f.committed)) \o buf

\* C27: each turn of the aggregator loop takes the head of the result queue,
\* and the row of a Success goes behind every row handled before it, in the
\* buffer and so in the executemany calls.
C27_ResultsInOrder ==
    [][done' = done + 1 =>
          /\ results # <<>> /\ results' = Tail(results)
          /\ Handled' = Handled \o (IF Head(results).isdata /\ ~Head(results).err
                                    THEN <<make_row(Head(results))>> ELSE <<>>)
          /\ \A f \in DOMAIN flushes' :
                f > Len(flushes) /\ flushes'[f].at = "finally" => flushes'[f].rows = buf']_vars

C27_Witness ==
    /\ codes = <<1, 2, 3>> /\ batch = 2 /\ Len(flushes) = 1 /\ flushes[1].committed
    /\ Len(flushes[1].rows) = 2
    /\ flushes[1].rows[1].job = 2 /\ flushes[1].rows[2].job = 1
    /\ results # <<>> /\ Head(results).job = 3

\* C28 as stated: when the loop has ended with done = total, the job queue
\* is empty and every worker task is waiting in jobs.get().
C28_AllWorkersBlockedOnQueue ==
    (pc = "ctx_exit" /\ exitKind = "normal") =>
        /\ jobs = <<>>
        /\ \A w \in Started : wpc[w] = "get" /\ witem[w] = None

\* C28, amended: when the loop has ended with done = total, the job queue is
\* empty and no worker holds a job: each worker task waits in jobs.get(), is
\* still creating its page, or has ended with an error creating it.
C28_NoJobInFlightAtExit ==
    (pc = "ctx_exit" /\ exitKind = "normal") =>
        /\ jobs = <<>>
        /\ \A w \in Started :
              witem[w] = None /\ wpc[w] \in {"get", "new_page", "failed"}

C28_Witness ==
    /\ pc = "ctx_exit" /\ exitKind = "normal" /\ total = 3
    /\ wpc[1] = "get" /\ wpc[2] = "failed"

\* C30: at the final tally of the sequential scraper, ok is the number of
\* targets whose row was executed and committed.
C30_OkCountsCommitted ==
    spc = "tally" => sok = Cardinality(committed)

\* C21: every URL passed to driver.get, the login URL included, starts with
\* one of the allowed origins, and no target that is not allowed is kept.
C21_OnlyAllowedOrigins ==
    /\ \A i \in DOMAIN ggets : is_allowed(ggets[i])
    /\ \A i \in DOMAIN gtargets : is_allowed(gtargets[i])

\* C22: with ALLOW_AUTOMATION not set to an accepted value, main() ends at
\* its switch: no database connection, no browser, no target, no driver.get.
C22_StopsWithoutOptIn ==
    genv \notin {"1", "true", "TRUE", "yes", "YES"} =>
        /\ gpc \in {"start", "exited"}
        /\ ~gdb /\ ~gbrowser
        /\ gtargets = <<>> /\ ggets = <<>> /\ gidx = 0

C22_Witness ==
    gpc = "exited" /\ genv = "True" /\ ~gdb /\ ~gbrowser /\ grows # <<>>

\* the callers that have read `now` and not yet set _next
InsideAcquire == {c \in Callers : cpc[c] = "sleeping"}

py_ge(a, b) == ~py_gt(b, a)

NavsOf(l) == SelectSeq(l, LAMBDA e : e.ev = "nav")

\* C32: with qps > 0 the targets are navigated to one after the other in
\* enumerator order, and a sleep of at least 0.05 s and at least 1/qps lies
\* between the navigation of a target and that of the next, whether the
\* target ended in ok or in ng; the sleep is also taken after the last
\* target.
C32_PauseBetweenTargets ==
    py_gt(sqps, Fin(0, 1)) =>
        /\ \A i \in DOMAIN NavsOf(slog) : NavsOf(slog)[i].t = targets[i]
        /\ \A i \in DOMAIN slog :
              /\ slog[i].ev = "nav" <=> i % 2 = 1
              /\ slog[i].ev = "sleep" =>
                    /\ slog[i].t = slog[i - 1].t
                    /\ slog[i].d.kind = "fin"
                    /\ py_ge(slog[i].d, Fin(1, 20))
                    /\ py_ge(slog[i].d, py_inverse(sqps))
        /\ spc \in {"nav", "tally"} => Len(slog) % 2 = 0
        /\ spc = "tally" => Len(slog) = 2 * Len(targets)

C32_Witness ==
    /\ spc = "tally" /\ sqps = Fin(40, 1) /\ Len(targets) = 2
    /\ sok = 1 /\ sng = 1
    /\ Len(slog) = 4 /\ slog[2].d = Fin(1, 20) /\ slog[4].d = Fin(1, 20)

\* C33: every target is counted once, in ok or in ng: ok + ng is the number
\* of targets gone through, and the number of targets at the final tally.
C33_EachTargetCountedOnce ==
    /\ spc \in {"nav", "write"} => sok + sng = sidx - 1
    /\ spc = "pause" => sok + sng = sidx
    /\ spc = "tally" => sok + sng = Len(targets)

C33_Witness ==
    /\ spc = "tally" /\ Len(targets) = 2 /\ committed = {1}
    /\ swrites[1] = 1 /\ swrites[2] = 0 /\ sok = 1 /\ sng = 1

====
